---- MODULE Spec2Model ----
(***************************************************************************)
(* Authentication / session lifecycle of the todo backend                  *)
(* (backend/src/routes/auth.ts, backend/src/middleware/auth.ts,            *)
(* entities/User.entity.ts).                                               *)
(*                                                                         *)
(* Time is counted in whole seconds (Date.now() sampled at 1 s             *)
(* granularity): two requests with no Tick between them fall in the same   *)
(* clock second.                                                           *)
(*                                                                         *)
(* Optional column values are modelled as sequences of length 0 or 1:      *)
(* <<>> is SQL NULL / JS null, <<v>> is the value v.                       *)
(***************************************************************************)
EXTENDS Integers, Sequences, FiniteSets, TLC

-----------------------------------------------------------------------------
(* Bounds of the model *)

MaxUsers == 2
MaxTicks == 2
MaxRequests == 3
MaxResetTokens == 1
MaxInflight == 2
RandDen == 2
MaxTodos == 2
MaxClientRequests == 3
MaxClientTokens == 3

-----------------------------------------------------------------------------
(* Program constants (seconds) *)

ACCESS_TOKEN_EXPIRES_IN == 900
REFRESH_TOKEN_EXPIRES_IN == 2592000
RESET_PASSWORD_EXPIRES_IN == 3600
\* `new Date(Date.now() + 10 * 60 * 1000)`, in seconds
OtpTtl == 10 * 60

-----------------------------------------------------------------------------
(* Request inputs *)

None == <<>>
Some(v) == <<v>>

WellFormedEmails == {"a@x.io", "b@x.io"}
EmailInputs == WellFormedEmails \cup {"not-an-email"}
RegisterPasswords == {"hunter22", "abc"}
LoginPasswords == {"hunter22", "wrong-pw", ""}
\* Math.random() returns k / RandDen for some k in 0 .. RandDen-1
RandomValues == 0 .. (RandDen - 1)
\* the clock advances by the OTP lifetime or by the refresh-token lifetime
Jumps == {OtpTtl, REFRESH_TOKEN_EXPIRES_IN}
\* a request meets no fault, a failing database call or a failing sendMail
Faults == {"none", "db", "mail"}
DbFaults == {"none", "db"}

\* class-validator decorators of the DTOs
IsEmail(e) == e \in WellFormedEmails
IsNotEmpty(s) == Len(s) > 0
MinLength(s, n) == Len(s) >= n

-----------------------------------------------------------------------------
(* Helpers of routes/auth.ts *)

RECURSIVE NumberToString(_)
\* Number.prototype.toString(): the decimal digits, most significant first
NumberToString(n) ==
    IF n < 10 THEN <<n>> ELSE Append(NumberToString(n \div 10), n % 10)

\* generateOtp with a factor and offset of one digit less
generateOtpShort(k) == NumberToString(10000 + ((k * 90000) \div RandDen))

\* Math.floor(100000 + Math.random() * 900000).toString(), Math.random() = k / RandDen
generateOtp(k) == NumberToString(100000 + ((k * 900000) \div RandDen))

\* jsonwebtoken sign(): HS256 over the payload; sign() adds iat = the
\* current second, so the token is a function of (sub, exp, iat)
Sign(sub, exp, iat) == [sub |-> sub, exp |-> exp, iat |-> iat, sig |-> "HS256"]

generateTokens(userId, t) ==
    [accessToken  |-> Sign(userId, t + ACCESS_TOKEN_EXPIRES_IN, t),
     refreshToken |-> Sign(userId, t + REFRESH_TOKEN_EXPIRES_IN, t)]

\* verify() with ignoreExpiration
VerifyIgnoreExpiration(tok, t) == tok.sig = "HS256"

\* jsonwebtoken verify(): throws unless the signature is ours and now < exp
Verify(tok, t) == tok.sig = "HS256" /\ t < tok.exp

\* argon2.hash / argon2.verify
Argon2Hash(pw) == <<"argon2id", pw>>
Argon2VerifyAny(hash, pw) == hash[1] = "argon2id"
Argon2Verify(hash, pw) == hash = Argon2Hash(pw)

\* a token whose signature was not made with JWT_SECRET
ForgedToken == [sub |-> 1, exp |-> 2 * REFRESH_TOKEN_EXPIRES_IN + 1, iat |-> 0, sig |-> "forged"]

-----------------------------------------------------------------------------
(* State *)

VARIABLES
    users,     \* table "user": sequence of rows, the row's id is its index
    now,       \* the clock, in seconds
    ticks,     \* number of clock advances so far
    nreq,      \* number of requests received so far
    nonce,     \* number of crypto.randomBytes(32) reset tokens drawn so far
    minted,    \* every JWT handed out in a response so far
    issued,    \* per account id: the refresh token generated last for it
    spent,     \* refresh tokens that were accepted by a successful refresh
    inflight,  \* requests being handled concurrently (ConcSpec only)
    todos,     \* table "todo": sequence of rows, the row's id is its index
    isRefreshing,  \* client.ts: a token refresh has been started and not finished
    failedQueue,   \* client.ts: the requests waiting for that refresh, in order
    localStorage,  \* the browser's accessToken and refreshToken items
    requests,      \* per request of the frontend: where it is, _retry, its header
    tokenSeq       \* number of token pairs handed to the frontend so far

serverVars == <<users, now, ticks, nreq, nonce, minted, issued, spent, inflight, todos>>

clientVars == <<isRefreshing, failedQueue, localStorage, requests, tokenSeq>>

vars == <<serverVars, clientVars>>

Columns == {"email", "password", "refreshToken", "resetPasswordToken",
            "resetPasswordExpires", "emailVerificationOtp",
            "emailVerificationExpires", "isEmailVerified"}

\* userRepo.findOneBy({ email }): the ids of the matching rows of table db
ByEmail(db, email) == {i \in 1 .. Len(db) : db[i].email = email}
findOneByEmail(db, email) ==
    CHOOSE i \in ByEmail(db, email) : \A j \in ByEmail(db, email) : i <= j

\* userRepo.create(...) followed by the INSERT of save(): columns that are
\* not given take the column default (NULL, isEmailVerified false)
NewRow(email, hash, otp, otpExpires) ==
    [email |-> email, password |-> hash, refreshToken |-> None,
     resetPasswordToken |-> None, resetPasswordExpires |-> None,
     emailVerificationOtp |-> otp, emailVerificationExpires |-> otpExpires,
     isEmailVerified |-> FALSE]

\* userRepo.save(entity) of a loaded entity: TypeORM writes the properties
\* of the entity to the row and skips every property whose value is
\* `undefined` ("supports partial updating since all undefined properties
\* are skipped"; only null writes NULL).  undef is the set of properties of
\* the entity that hold `undefined`.
SaveRow(row, entity, undef) ==
    [c \in Columns |-> IF c \in undef THEN row[c] ELSE entity[c]]

\* what a handler did: the table it leaves and the response it sent
Out(db, status, msg, tokens) ==
    [users |-> db, status |-> status, msg |-> msg, tokens |-> tokens]

\* next(err): the global error handler (middleware/errorHandler)
errorHandler(db) == Out(db, 500, "Internal server error", None)

-----------------------------------------------------------------------------
(* POST /register *)

\* a register without the lookup of line 188 whose save replaces the row
\* of a registered email
RegisterUpserts(db, t, email, password, k, fault) ==
    LET row == NewRow(email, Argon2Hash(password), Some(generateOtp(k)), Some(t + OtpTtl)) IN
    IF ~IsEmail(email) \/ ~IsNotEmpty(password) \/ ~MinLength(password, 6)
    THEN Out(db, 400, "validation", None)
    ELSE IF fault = "db" THEN errorHandler(db)
    ELSE IF ByEmail(db, email) # {}
    THEN Out([db EXCEPT ![findOneByEmail(db, email)] = row], 201, "Registration successful", None)
    ELSE Out(Append(db, row), 201, "Registration successful", None)

RegisterResult(db, t, email, password, k, fault) ==
    LET otp == generateOtp(k)
        otpExpires == t + OtpTtl
    IN
    IF ~IsEmail(email) \/ ~IsNotEmpty(password) \/ ~MinLength(password, 6)
    THEN Out(db, 400, "validation", None)
    ELSE IF fault = "db" THEN errorHandler(db)
    ELSE IF ByEmail(db, email) # {}
    THEN Out(db, 400, "Email already registered", None)
    ELSE \* a failing sendMail is caught and logged only
         Out(Append(db, NewRow(email, Argon2Hash(password), Some(otp), Some(otpExpires))),
             201, "Registration successful", None)

-----------------------------------------------------------------------------
(* POST /login *)

\* a login without the check of line 345
LoginWithoutVerifiedCheck(db, t, email, password, fault) ==
    LET id == findOneByEmail(db, email)
        toks == generateTokens(id, t)
    IN
    IF ~IsEmail(email) \/ ~IsNotEmpty(password)
    THEN Out(db, 400, "validation", None)
    ELSE IF fault = "db" THEN errorHandler(db)
    ELSE IF ByEmail(db, email) = {} \/ ~Argon2Verify(db[id].password, password)
    THEN Out(db, 400, "Invalid credentials", None)
    ELSE Out([db EXCEPT ![id].refreshToken = Some(toks.refreshToken)],
             200, "Logged in", Some(toks))

LoginResult(db, t, email, password, fault) ==
    LET id == findOneByEmail(db, email)
        toks == generateTokens(id, t)
    IN
    IF ~IsEmail(email) \/ ~IsNotEmpty(password)
    THEN Out(db, 400, "validation", None)
    ELSE IF fault = "db" THEN errorHandler(db)
    ELSE IF ByEmail(db, email) = {} \/ ~Argon2Verify(db[id].password, password)
    THEN Out(db, 400, "Invalid credentials", None)
    ELSE IF ~db[id].isEmailVerified
    THEN Out(db, 400, "Email not verified", None)
    ELSE Out([db EXCEPT ![id] =
                 SaveRow(@, [@ EXCEPT !.refreshToken = Some(toks.refreshToken)], {})],
             200, "Logged in", Some(toks))

-----------------------------------------------------------------------------
(* POST /verify-otp *)

VerifyOtpResult(db, t, email, otp, fault) ==
    LET id == findOneByEmail(db, email)
        user == db[id]
    IN
    IF ~IsEmail(email) \/ ~IsNotEmpty(otp) \/ ~MinLength(otp, 6)
    THEN Out(db, 400, "validation", None)
    ELSE IF fault = "db" THEN errorHandler(db)
    ELSE IF ByEmail(db, email) = {}
    THEN Out(db, 404, "User not found", None)
    ELSE IF \/ user.emailVerificationOtp = None
            \/ user.emailVerificationOtp # Some(otp)
            \/ user.emailVerificationExpires = None
            \/ user.emailVerificationExpires[1] < t
    THEN Out(db, 400, "Invalid or expired OTP", None)
    ELSE \* user.isEmailVerified = true; the two OTP properties are set to
         \* undefined; save(user)
         Out([db EXCEPT ![id] =
                 SaveRow(@, [@ EXCEPT !.isEmailVerified = TRUE],
                         {"emailVerificationOtp", "emailVerificationExpires"})],
             200, "Email verified successfully", None)

-----------------------------------------------------------------------------
(* POST /resend-otp *)

\* a handler that sends the mail before it saves the new code
ResendOtpMailFirst(db, t, email, k, fault) ==
    LET id == findOneByEmail(db, email)
        saved == [db EXCEPT ![id].emailVerificationOtp = Some(generateOtp(k)),
                            ![id].emailVerificationExpires = Some(t + OtpTtl)]
    IN
    IF ~IsEmail(email) THEN Out(db, 400, "validation", None)
    ELSE IF fault = "db" THEN errorHandler(db)
    ELSE IF ByEmail(db, email) = {} THEN Out(db, 404, "User not found", None)
    ELSE IF db[id].isEmailVerified THEN Out(db, 400, "Email is already verified", None)
    ELSE IF fault = "mail" THEN Out(db, 500, "Failed to send OTP email", None)
    ELSE Out(saved, 200, "OTP resent successfully", None)

ResendOtpResult(db, t, email, k, fault) ==
    LET id == findOneByEmail(db, email)
        otp == generateOtp(k)
        otpExpires == t + OtpTtl
        saved == [db EXCEPT ![id] =
                     SaveRow(@, [@ EXCEPT !.emailVerificationOtp = Some(otp),
                                          !.emailVerificationExpires = Some(otpExpires)], {})]
    IN
    IF ~IsEmail(email) THEN Out(db, 400, "validation", None)
    ELSE IF fault = "db" THEN errorHandler(db)
    ELSE IF ByEmail(db, email) = {} THEN Out(db, 404, "User not found", None)
    ELSE IF db[id].isEmailVerified THEN Out(db, 400, "Email is already verified", None)
    ELSE IF fault = "mail" THEN Out(saved, 500, "Failed to send OTP email", None)
    ELSE Out(saved, 200, "OTP resent successfully", None)

-----------------------------------------------------------------------------
(* POST /refresh *)

RefreshResult(db, t, token, fault) ==
    LET tok == token[1]
        id == tok.sub
        toks == generateTokens(id, t)
    IN
    IF token = None THEN Out(db, 401, "Refresh token required", None)
    ELSE IF ~Verify(tok, t) \/ fault = "db"
    THEN \* verify() or the repository threw: the catch block answers
         Out(db, 401, "Invalid refresh token", None)
    ELSE IF id \notin 1 .. Len(db) \/ db[id].refreshToken # Some(tok)
    THEN Out(db, 401, "Invalid refresh token", None)
    ELSE Out([db EXCEPT ![id] =
                 SaveRow(@, [@ EXCEPT !.refreshToken = Some(toks.refreshToken)], {})],
             200, "Tokens refreshed", Some(toks))

-----------------------------------------------------------------------------
(* POST /logout *)

LogoutResult(db, t, token, fault) ==
    LET tok == token[1]
        id == tok.sub
    IN
    IF token # None /\ Verify(tok, t) /\ fault # "db" /\ id \in 1 .. Len(db)
    THEN \* user.refreshToken = undefined; save(user)
         Out([db EXCEPT ![id] = SaveRow(@, @, {"refreshToken"})], 200, "Logged out", None)
    ELSE Out(db, 200, "Logged out", None)

-----------------------------------------------------------------------------
(* POST /google *)

\* the body's token: "" is a missing token, "bad" a token that
\* verifyIdToken rejects, "no-email" a verified token whose payload has no
\* email, otherwise the email of the verified payload
GoogleInputs == WellFormedEmails \cup {"", "bad", "no-email"}

\* a handler without the lookup of line 908: it provisions an account for
\* every verified token
GoogleAlwaysProvisions(db, t, idToken, fault) ==
    LET id == Len(db) + 1
        toks == generateTokens(id, t)
        created == Append(db, NewRow(idToken, Argon2Hash("random-hex-16"), None, None))
    IN
    IF idToken \in {"", "no-email"} THEN Out(db, 400, "Invalid Google token", None)
    ELSE IF idToken = "bad" \/ fault = "db" THEN errorHandler(db)
    ELSE Out([created EXCEPT ![id].refreshToken = Some(toks.refreshToken)],
             200, "Signed in with Google", Some(toks))

GoogleResult(db, t, idToken, fault) ==
    LET exists == ByEmail(db, idToken) # {}
        id == IF exists THEN findOneByEmail(db, idToken) ELSE Len(db) + 1
        toks == generateTokens(id, t)
        created == IF exists THEN db
                   ELSE Append(db, NewRow(idToken, Argon2Hash("random-hex-16"), None, None))
    IN
    IF idToken = "" THEN Out(db, 400, "Token is required", None)
    ELSE IF idToken = "bad" THEN errorHandler(db)
    ELSE IF idToken = "no-email" THEN Out(db, 400, "Invalid Google token", None)
    ELSE IF fault = "db" THEN errorHandler(db)
    ELSE Out([created EXCEPT ![id] =
                 SaveRow(@, [@ EXCEPT !.refreshToken = Some(toks.refreshToken)], {})],
             200, "Signed in with Google", Some(toks))

-----------------------------------------------------------------------------
(* POST /forgot-password *)

\* token: the value crypto.randomBytes(32) returns
ForgotPasswordResult(db, t, email, token, fault) ==
    LET id == findOneByEmail(db, email)
        saved == [db EXCEPT ![id] =
                     SaveRow(@, [@ EXCEPT !.resetPasswordToken = Some(token),
                                          !.resetPasswordExpires = Some(t + RESET_PASSWORD_EXPIRES_IN)], {})]
    IN
    IF email = "" THEN Out(db, 400, "Email is required", None)
    ELSE IF fault = "db" THEN errorHandler(db)
    ELSE IF ByEmail(db, email) = {}
    THEN Out(db, 200, "If that email is registered, a reset link has been sent.", None)
    ELSE IF fault = "mail"
    THEN \* sendMail throws after the save: next(err)
         errorHandler(saved)
    ELSE Out(saved, 200, "If that email is registered, a reset link has been sent.", None)

-----------------------------------------------------------------------------
(* POST /reset-password *)

ByResetToken(db, token) == {i \in 1 .. Len(db) : db[i].resetPasswordToken = Some(token)}

\* token 0 stands for a missing token
ResetPasswordResult(db, t, token, newPassword, fault) ==
    LET id == CHOOSE i \in ByResetToken(db, token) : TRUE
    IN
    IF token = 0 \/ newPassword = ""
    THEN Out(db, 400, "Token and new password are required", None)
    ELSE IF fault = "db" THEN errorHandler(db)
    ELSE IF \/ ByResetToken(db, token) = {}
            \/ db[id].resetPasswordExpires = None
            \/ db[id].resetPasswordExpires[1] < t
    THEN Out(db, 400, "Invalid or expired token", None)
    ELSE \* user.password = hash; the two reset properties are set to
         \* undefined; save(user)
         Out([db EXCEPT ![id] =
                 SaveRow(@, [@ EXCEPT !.password = Argon2Hash(newPassword)],
                         {"resetPasswordToken", "resetPasswordExpires"})],
             200, "Password has been reset", None)

-----------------------------------------------------------------------------
(* Requests handled one at a time, each to completion *)

Idle == [pc |-> "idle", op |-> "", email |-> "", password |-> "", token |-> None,
         id |-> 0, entity |-> None, tokens |-> None, status |-> 0, peers |-> {}]

Init ==
    /\ users = <<>>
    /\ now = 0
    /\ ticks = 0
    /\ nreq = 0
    /\ nonce = 0
    /\ minted = {}
    /\ issued = [i \in 1 .. MaxUsers |-> None]
    /\ spent = {}
    /\ inflight = [s \in 1 .. MaxInflight |-> Idle]
    /\ todos = <<>>
    /\ isRefreshing = FALSE
    /\ failedQueue = <<>>
    /\ localStorage = [accessToken |-> None, refreshToken |-> None]
    /\ requests = [r \in 1 .. MaxClientRequests |->
                      [state |-> "idle", retry |-> FALSE, sends |-> 0,
                       Authorization |-> None]]
    /\ tokenSeq = 0

Tick(d) ==
    /\ ticks < MaxTicks
    /\ now' = now + d
    /\ ticks' = ticks + 1
    /\ UNCHANGED <<users, nreq, nonce, minted, issued, spent, inflight, todos, clientVars>>

\* the handler ran to completion with outcome r
Handled(r) ==
    /\ nreq < MaxRequests
    /\ Len(r.users) <= MaxUsers
    /\ nreq' = nreq + 1
    /\ users' = r.users
    /\ UNCHANGED <<now, ticks, inflight, todos, clientVars>>

\* the response carried the token pair generated for account id
Hands(r, id) ==
    IF r.tokens = None
    THEN UNCHANGED <<minted, issued>>
    ELSE /\ minted' = minted \cup {r.tokens[1].accessToken, r.tokens[1].refreshToken}
         /\ issued' = [issued EXCEPT ![id] = Some(r.tokens[1].refreshToken)]

Register(email, password, k, fault) ==
    /\ Handled(RegisterResult(users, now, email, password, k, fault))
    /\ UNCHANGED <<nonce, minted, issued, spent>>

Login(email, password, fault) ==
    LET r == LoginResult(users, now, email, password, fault) IN
    /\ Handled(r)
    /\ Hands(r, r.tokens[1].refreshToken.sub)
    /\ UNCHANGED <<nonce, spent>>

VerifyOtp(email, otp, fault) ==
    /\ Handled(VerifyOtpResult(users, now, email, otp, fault))
    /\ UNCHANGED <<nonce, minted, issued, spent>>

ResendOtp(email, k, fault) ==
    /\ Handled(ResendOtpResult(users, now, email, k, fault))
    /\ UNCHANGED <<nonce, minted, issued, spent>>

Refresh(token, fault) ==
    LET r == RefreshResult(users, now, token, fault) IN
    /\ Handled(r)
    /\ Hands(r, r.tokens[1].refreshToken.sub)
    /\ spent' = IF r.status = 200 THEN spent \cup {token[1]} ELSE spent
    /\ UNCHANGED nonce

Logout(token, fault) ==
    /\ Handled(LogoutResult(users, now, token, fault))
    /\ UNCHANGED <<nonce, minted, issued, spent>>

Google(idToken, fault) ==
    LET r == GoogleResult(users, now, idToken, fault) IN
    /\ Handled(r)
    /\ Hands(r, r.tokens[1].refreshToken.sub)
    /\ UNCHANGED <<nonce, spent>>

ForgotPassword(email, fault) ==
    LET r == ForgotPasswordResult(users, now, email, nonce + 1, fault) IN
    /\ Handled(r)
    /\ IF r.users # users
       THEN nonce < MaxResetTokens /\ nonce' = nonce + 1
       ELSE UNCHANGED nonce
    /\ UNCHANGED <<minted, issued, spent>>

ResetPassword(token, newPassword, fault) ==
    /\ Handled(ResetPasswordResult(users, now, token, newPassword, fault))
    /\ UNCHANGED <<nonce, minted, issued, spent>>

OtpInputs == {generateOtp(k) : k \in RandomValues} \cup {<<1, 2, 3>>}
TokenInputs == {None} \cup {Some(t) : t \in minted \cup {ForgedToken}}
ForgotInputs == WellFormedEmails \cup {""}
NewPasswords == {"newpass1", ""}

Next ==
    \/ \E d \in Jumps : Tick(d)
    \/ \E e \in EmailInputs, p \in RegisterPasswords, k \in RandomValues, f \in Faults :
          Register(e, p, k, f)
    \/ \E e \in EmailInputs, p \in LoginPasswords, f \in DbFaults : Login(e, p, f)
    \/ \E e \in EmailInputs, o \in OtpInputs, f \in DbFaults : VerifyOtp(e, o, f)
    \/ \E e \in EmailInputs, k \in RandomValues, f \in Faults : ResendOtp(e, k, f)
    \/ \E t \in TokenInputs, f \in DbFaults : Refresh(t, f)
    \/ \E t \in TokenInputs, f \in DbFaults : Logout(t, f)
    \/ \E g \in GoogleInputs, f \in DbFaults : Google(g, f)
    \/ \E e \in ForgotInputs, f \in Faults : ForgotPassword(e, f)
    \/ \E t \in 0 .. nonce, p \in NewPasswords, f \in DbFaults : ResetPassword(t, p, f)

Spec == Init /\ [][Next]_vars

-----------------------------------------------------------------------------
(* Requests handled concurrently: a token-issuing handler yields at each   *)
(* await, between reading the account (findOneBy), generating the tokens   *)
(* and the write of save()                                                 *)

Slots == 1 .. MaxInflight

\* the handlers that have read their account and have not saved it yet
Reading(s) == {o \in Slots \ {s} : inflight[o].pc \in {"loaded", "minted"}}

\* a request arrives and takes slot s
Accept(s, slot) ==
    /\ nreq < MaxRequests
    /\ inflight[s].pc \in {"idle", "done"}
    /\ nreq' = nreq + 1
    /\ inflight' = [o \in Slots |->
                       IF o = s THEN slot
                       ELSE [inflight[o] EXCEPT !.peers = @ \ {s}]]

Answered(op, status) == [Idle EXCEPT !.pc = "done", !.op = op, !.status = status]

\* POST /refresh up to the result of findOneBy({ id: payload.sub })
StartRefresh(s, token) ==
    /\ Accept(s,
          IF token = None \/ ~Verify(token[1], now)
          THEN [Answered("refresh", 401) EXCEPT !.token = token]
          ELSE [Idle EXCEPT !.pc = "loaded", !.op = "refresh", !.token = token,
                            !.id = token[1].sub,
                            !.entity = IF token[1].sub \in 1 .. Len(users)
                                       THEN Some(users[token[1].sub]) ELSE None,
                            !.peers = Reading(s)])
    /\ UNCHANGED <<users, now, ticks, nonce, minted, issued, spent, todos, clientVars>>

\* POST /login up to the result of findOneBy({ email })
StartLogin(s, email, password) ==
    /\ Accept(s,
          IF ~IsEmail(email) \/ ~IsNotEmpty(password)
          THEN Answered("login", 400)
          ELSE [Idle EXCEPT !.pc = "loaded", !.op = "login", !.email = email,
                            !.password = password,
                            !.id = IF ByEmail(users, email) = {} THEN 0
                                   ELSE findOneByEmail(users, email),
                            !.entity = IF ByEmail(users, email) = {} THEN None
                                       ELSE Some(users[findOneByEmail(users, email)]),
                            !.peers = Reading(s)])
    /\ UNCHANGED <<users, now, ticks, nonce, minted, issued, spent, todos, clientVars>>

\* POST /google up to the result of findOneBy({ email: payload.email })
StartGoogle(s, idToken) ==
    /\ Accept(s,
          IF idToken \in {"", "no-email"} THEN Answered("google", 400)
          ELSE IF idToken = "bad" THEN Answered("google", 500)
          ELSE [Idle EXCEPT !.pc = IF ByEmail(users, idToken) = {} THEN "creating" ELSE "loaded",
                            !.op = "google", !.email = idToken,
                            !.id = IF ByEmail(users, idToken) = {} THEN 0
                                   ELSE findOneByEmail(users, idToken),
                            !.entity = IF ByEmail(users, idToken) = {} THEN None
                                       ELSE Some(users[findOneByEmail(users, idToken)]),
                            !.peers = IF ByEmail(users, idToken) = {} THEN {} ELSE Reading(s)])
    /\ UNCHANGED <<users, now, ticks, nonce, minted, issued, spent, todos, clientVars>>

\* POST /register up to the result of findOneBy({ email: dto.email })
StartRegister(s, email, password) ==
    /\ Accept(s,
          IF ~IsEmail(email) \/ ~IsNotEmpty(password) \/ ~MinLength(password, 6)
          THEN Answered("register", 400)
          ELSE IF ByEmail(users, email) # {} THEN Answered("register", 400)
          ELSE [Idle EXCEPT !.pc = "creating", !.op = "register", !.email = email,
                            !.password = password])
    /\ UNCHANGED <<users, now, ticks, nonce, minted, issued, spent, todos, clientVars>>

\* the row that the handler of slot creates: register hashes the password
\* of the body and draws the OTP (k is what Math.random returns), google
\* hashes a random password
CreatedRow(slot, k) ==
    IF slot.op = "register"
    THEN NewRow(slot.email, Argon2Hash(slot.password), Some(generateOtp(k)), Some(now + OtpTtl))
    ELSE NewRow(slot.email, Argon2Hash("random-hex-16"), None, None)

\* an INSERT into a table without the unique index on email
InsertNoUniqueIndex(s, k) ==
    LET slot == inflight[s]
        row == CreatedRow(slot, k)
    IN
    /\ slot.pc = "creating"
    /\ Len(users) < MaxUsers
    /\ users' = Append(users, row)
    /\ inflight' = [inflight EXCEPT ![s] =
          IF slot.op = "register" THEN Answered("register", 201)
          ELSE [slot EXCEPT !.pc = "loaded", !.id = Len(users) + 1,
                            !.entity = Some(row), !.peers = Reading(s)]]
    /\ UNCHANGED <<now, ticks, nreq, nonce, minted, issued, spent, todos, clientVars>>

\* POST /register and POST /google, no account found: save(create(...))
\* inserts the row; the unique index on email makes the INSERT throw if the
\* email exists by now, and the handler's catch passes the error on.
\* register then answers 201 (a failing sendMail is only logged), google
\* goes on with the created account.
Insert(s, k) ==
    LET slot == inflight[s]
        row == CreatedRow(slot, k)
    IN
    /\ slot.pc = "creating"
    /\ IF ByEmail(users, slot.email) # {}
       THEN /\ inflight' = [inflight EXCEPT ![s] = Answered(slot.op, 500)]
            /\ UNCHANGED users
       ELSE /\ Len(users) < MaxUsers
            /\ users' = Append(users, row)
            /\ inflight' = [inflight EXCEPT ![s] =
                  IF slot.op = "register" THEN Answered("register", 201)
                  ELSE [slot EXCEPT !.pc = "loaded", !.id = Len(users) + 1,
                                    !.entity = Some(row), !.peers = Reading(s)]]
    /\ UNCHANGED <<now, ticks, nreq, nonce, minted, issued, spent, todos, clientVars>>

\* the checks on the account that was read, then generateTokens(user.id)
\* and user.refreshToken = refreshToken
Issue(s) ==
    LET slot == inflight[s]
        user == slot.entity[1]
        toks == generateTokens(slot.id, now)
        refused ==
            CASE slot.op = "refresh" ->
                    IF slot.entity = None \/ user.refreshToken # slot.token THEN 401 ELSE 0
              [] slot.op = "login" ->
                    IF slot.entity = None \/ ~Argon2Verify(user.password, slot.password)
                    THEN 400
                    ELSE IF ~user.isEmailVerified THEN 400 ELSE 0
              [] OTHER -> 0
    IN
    /\ slot.pc = "loaded"
    /\ IF refused # 0
       THEN /\ inflight' = [inflight EXCEPT ![s] =
                  [Answered(slot.op, refused) EXCEPT !.token = slot.token, !.peers = slot.peers]]
            /\ UNCHANGED issued
       ELSE /\ inflight' = [inflight EXCEPT ![s] =
                  [slot EXCEPT !.pc = "minted", !.tokens = Some(toks),
                               !.entity = Some([user EXCEPT !.refreshToken = Some(toks.refreshToken)])]]
            /\ issued' = [issued EXCEPT ![slot.id] = Some(toks.refreshToken)]
    /\ UNCHANGED <<users, now, ticks, nreq, nonce, minted, spent, todos, clientVars>>

\* await userRepo.save(user), then res.json({ ..., accessToken, refreshToken })
Save(s) ==
    LET slot == inflight[s] IN
    /\ slot.pc = "minted"
    /\ users' = [users EXCEPT ![slot.id] = SaveRow(@, slot.entity[1], {})]
    /\ minted' = minted \cup {slot.tokens[1].accessToken, slot.tokens[1].refreshToken}
    /\ spent' = IF slot.op = "refresh" THEN spent \cup {slot.token[1]} ELSE spent
    /\ inflight' = [inflight EXCEPT ![s] = [slot EXCEPT !.pc = "done", !.status = 200]]
    /\ UNCHANGED <<now, ticks, nreq, nonce, issued, todos, clientVars>>

ConcNext ==
    \/ \E d \in Jumps : Tick(d)
    \/ \E s \in Slots, e \in WellFormedEmails : StartRegister(s, e, "hunter22")
    \/ \E e \in WellFormedEmails, o \in OtpInputs : VerifyOtp(e, o, "none")
    \/ \E s \in Slots, t \in TokenInputs : StartRefresh(s, t)
    \/ \E s \in Slots, e \in EmailInputs, p \in LoginPasswords : StartLogin(s, e, p)
    \/ \E s \in Slots, g \in GoogleInputs : StartGoogle(s, g)
    \/ \E s \in Slots, k \in RandomValues : Insert(s, k)
    \/ \E s \in Slots : Issue(s)
    \/ \E s \in Slots : Save(s)

ConcSpec == Init /\ [][ConcNext]_vars

-----------------------------------------------------------------------------
(* Protected routes: GET /api/auth/me and the todo routes, behind the      *)
(* authenticate middleware                                                 *)

\* the Authorization header of a request: None is a missing header,
\* otherwise the scheme and the credentials that follow it
HeaderInputs ==
    {None} \cup {Some([scheme |-> sc, token |-> t]) :
                    sc \in {"Bearer", "Basic"}, t \in minted \cup {ForgedToken}}

\* the failure injected into a protected request: "db" makes the user
\* lookup of the middleware throw, "todo" the todo repository call of the
\* handler
ProtectedFaults == {"none", "db", "todo"}

Denied(msg) == [user |-> 0, status |-> 401, msg |-> msg]

\* a middleware that does not look at the scheme of the header
authenticateAnyScheme(db, t, header, fault) ==
    IF header = None THEN Denied("Authorization header required")
    ELSE IF ~Verify(header[1].token, t) \/ fault = "db" THEN Denied("Invalid token")
    ELSE IF header[1].token.sub \notin 1 .. Len(db) THEN Denied("User not found")
    ELSE [user |-> header[1].token.sub, status |-> 0, msg |-> ""]

\* authenticate: user is the id of req.user when next() is called, and 0
\* when the middleware answered the request itself
authenticate(db, t, header, fault) ==
    IF header = None \/ header[1].scheme # "Bearer"
    THEN Denied("Authorization header required")
    ELSE IF ~Verify(header[1].token, t) \/ fault = "db" THEN Denied("Invalid token")
    ELSE IF header[1].token.sub \notin 1 .. Len(db) THEN Denied("User not found")
    ELSE [user |-> header[1].token.sub, status |-> 0, msg |-> ""]

\* what a protected request did: the tables it leaves, the response, and
\* the account the handler ran for (0: the handler did not run)
TodoOut(db, tds, user, status, msg, body) ==
    [users |-> db, todos |-> tds, user |-> user, status |-> status, msg |-> msg,
     body |-> body]

\* the middleware answered: the handler is not called
Unauthorized(db, tds, a) == TodoOut(db, tds, 0, a.status, a.msg, {})

\* next(err) from a todo handler
TodoError(db, tds, user) == TodoOut(db, tds, user, 500, "Internal server error", {})

\* GET /api/auth/me
MeResult(db, tds, t, header, fault) ==
    LET a == authenticate(db, t, header, fault) IN
    IF a.user = 0 THEN Unauthorized(db, tds, a)
    ELSE TodoOut(db, tds, a.user, 200, db[a.user].email, {})

\* Texts are sequences of fragments; "<script>" is a fragment that
\* sanitize-html removes, every other fragment is kept.
sanitizeHtml(text) == SelectSeq(text, LAMBDA x : x # "<script>")

TodoNames == {<<>>, <<"milk">>, <<"tea", "<script>">>}
TodoDescriptions == {<<>>, <<"2l">>}
\* dateTime of a body: 0 is an empty string, -1 a string that is no ISO
\* 8601 date, a positive number the instant that the string denotes
DateInputs == {0, -1, 100}
IsDateString(d) == d > 0

CreateBodies ==
    [name : TodoNames, shortDescription : TodoDescriptions, dateTime : DateInputs]

\* the rows of a query made withDeleted
AllTodos(tds) == 1 .. Len(tds)

\* the rows that a repository query sees: soft-deleted rows are left out
LiveTodos(tds) == {i \in 1 .. Len(tds) : tds[i].deletedAt = None}

\* POST /api/todos of a router that is mounted without the middleware
CreateTodoUnprotected(db, tds, t, header, body, fault) ==
    LET todo == [name |-> sanitizeHtml(body.name),
                 shortDescription |-> sanitizeHtml(body.shortDescription),
                 dateTime |-> body.dateTime, isDone |-> FALSE,
                 deletedAt |-> None, userId |-> 0]
    IN
    IF ~IsNotEmpty(body.name) \/ ~IsNotEmpty(body.shortDescription)
       \/ ~IsDateString(body.dateTime)
    THEN TodoOut(db, tds, 0, 400, "validation", {})
    ELSE IF fault = "todo" THEN TodoError(db, tds, 0)
    ELSE TodoOut(db, Append(tds, todo), 0, 201, "created", {Len(tds) + 1})

\* POST /api/todos
CreateTodoResult(db, tds, t, header, body, fault) ==
    LET a == authenticate(db, t, header, fault)
        todo == [name |-> sanitizeHtml(body.name),
                 shortDescription |-> sanitizeHtml(body.shortDescription),
                 dateTime |-> body.dateTime, isDone |-> FALSE,
                 deletedAt |-> None, userId |-> a.user]
    IN
    IF a.user = 0 THEN Unauthorized(db, tds, a)
    ELSE IF ~IsNotEmpty(body.name) \/ ~IsNotEmpty(body.shortDescription)
            \/ ~IsDateString(body.dateTime)
    THEN TodoOut(db, tds, a.user, 400, "validation", {})
    ELSE IF fault = "todo" THEN TodoError(db, tds, a.user)
    ELSE TodoOut(db, Append(tds, todo), a.user, 201, "created", {Len(tds) + 1})

StatusFilters == {"", "COMPLETED", "UPCOMING"}

\* GET /api/todos: body is the set of ids of the rows returned
ListTodosResult(db, tds, t, header, status, fault) ==
    LET a == authenticate(db, t, header, fault)
        mine == {i \in LiveTodos(tds) : tds[i].userId = a.user}
        found == IF status = "COMPLETED" THEN {i \in mine : tds[i].isDone}
                 ELSE IF status = "UPCOMING" THEN {i \in mine : ~tds[i].isDone}
                 ELSE mine
    IN
    IF a.user = 0 THEN Unauthorized(db, tds, a)
    ELSE IF fault = "todo" THEN TodoError(db, tds, a.user)
    ELSE TodoOut(db, tds, a.user, 200, "todos", found)

\* a lookup by id alone
findOneTodoById(tds, id, userId) == {i \in LiveTodos(tds) : i = id}

\* todoRepo.findOneBy({ id, userId: user.id })
findOneTodo(tds, id, userId) ==
    {i \in LiveTodos(tds) : i = id /\ tds[i].userId = userId}

\* the id of the path: 0 is a string that is no UUID
isUUID(id) == id > 0
TodoIdInputs == 0 .. MaxTodos + 1

\* a body of PUT: each property is absent (None) or present; a present
\* text may be the empty string <<>>, a present dateTime the empty string 0
UpdateBodies ==
    [name : {None} \cup {Some(n) : n \in {<<>>, <<"tea", "<script>">>}},
     shortDescription : {None, Some(<<"1l">>)},
     dateTime : {None, Some(0), Some(200)},
     isDone : {None, Some(TRUE), Some(FALSE)}]

\* the properties that a body of PUT carries
PresentFields(body) ==
    {f \in {"name", "shortDescription", "dateTime", "isDone"} : body[f] # None}

\* the bodies that clients send: an edit form changes one property at a time
SentBodies == {b \in UpdateBodies : Cardinality(PresentFields(b)) <= 1}

\* PUT /api/todos/:id
UpdateTodoResult(db, tds, t, header, id, body, fault) ==
    LET a == authenticate(db, t, header, fault)
        found == findOneTodo(tds, id, a.user)
        old == tds[id]
        todo == [old EXCEPT
                   !.name = IF body.name # None /\ body.name[1] # <<>>
                            THEN sanitizeHtml(body.name[1]) ELSE @,
                   !.shortDescription =
                            IF body.shortDescription # None /\ body.shortDescription[1] # <<>>
                            THEN sanitizeHtml(body.shortDescription[1]) ELSE @,
                   !.dateTime = IF body.dateTime # None /\ body.dateTime[1] # 0
                                THEN body.dateTime[1] ELSE @,
                   !.isDone = IF body.isDone # None THEN body.isDone[1] ELSE @]
    IN
    IF a.user = 0 THEN Unauthorized(db, tds, a)
    ELSE IF ~isUUID(id) THEN TodoOut(db, tds, a.user, 400, "Invalid ID", {})
    ELSE IF fault = "todo" THEN TodoError(db, tds, a.user)
    ELSE IF found = {} THEN TodoOut(db, tds, a.user, 404, "Todo not found", {})
    ELSE TodoOut(db, [tds EXCEPT ![id] = todo], a.user, 200, "updated", {id})

\* DELETE /api/todos/:id
DeleteTodoResult(db, tds, t, header, id, fault) ==
    LET a == authenticate(db, t, header, fault)
        found == findOneTodo(tds, id, a.user)
    IN
    IF a.user = 0 THEN Unauthorized(db, tds, a)
    ELSE IF ~isUUID(id) THEN TodoOut(db, tds, a.user, 400, "Invalid ID", {})
    ELSE IF fault = "todo" THEN TodoError(db, tds, a.user)
    ELSE IF found = {} THEN TodoOut(db, tds, a.user, 404, "Todo not found", {})
    ELSE TodoOut(db, [tds EXCEPT ![id].deletedAt = Some(t)], a.user, 204, "", {})

\* a protected request was handled to completion with outcome r
Served(r) ==
    /\ nreq < MaxRequests
    /\ Len(r.todos) <= MaxTodos
    /\ nreq' = nreq + 1
    /\ users' = r.users
    /\ todos' = r.todos
    /\ UNCHANGED <<now, ticks, nonce, minted, issued, spent, inflight, clientVars>>

Me(header, fault) == Served(MeResult(users, todos, now, header, fault))

CreateTodo(header, body, fault) ==
    Served(CreateTodoResult(users, todos, now, header, body, fault))

ListTodos(header, status, fault) ==
    Served(ListTodosResult(users, todos, now, header, status, fault))

UpdateTodo(header, id, body, fault) ==
    Served(UpdateTodoResult(users, todos, now, header, id, body, fault))

DeleteTodo(header, id, fault) ==
    Served(DeleteTodoResult(users, todos, now, header, id, fault))

TodoNext ==
    \/ \E d \in Jumps : Tick(d)
    \/ \E g \in WellFormedEmails : Google(g, "none")
    \/ \E h \in HeaderInputs, f \in ProtectedFaults : Me(h, f)
    \/ \E h \in HeaderInputs, b \in CreateBodies, f \in ProtectedFaults : CreateTodo(h, b, f)
    \/ \E h \in HeaderInputs, st \in StatusFilters, f \in ProtectedFaults : ListTodos(h, st, f)
    \/ \E h \in HeaderInputs, id \in TodoIdInputs, b \in SentBodies, f \in ProtectedFaults :
          UpdateTodo(h, id, b, f)
    \/ \E h \in HeaderInputs, id \in TodoIdInputs, f \in ProtectedFaults : DeleteTodo(h, id, f)

TodoSpec == Init /\ [][TodoNext]_vars

-----------------------------------------------------------------------------
(* The frontend's axios instance "api" and its response interceptor.  A
   request is one config object handed to api(); every network event and
   the handler it runs (with the promise callbacks it releases) is one
   step.  A config re-sent with api(originalRequest) keeps the properties
   set on it, _retry included. *)

ClientRequests == 1 .. MaxClientRequests

ResponseStatuses == {200, 401, 500}

\* the interceptor's state as one value
Client ==
    [isRefreshing |-> isRefreshing, failedQueue |-> failedQueue,
     localStorage |-> localStorage, requests |-> requests, tokenSeq |-> tokenSeq]

NoTokens == [accessToken |-> None, refreshToken |-> None]

setTokens(accessToken, refreshToken) ==
    [accessToken |-> Some(accessToken), refreshToken |-> Some(refreshToken)]

clearTokens == NoTokens

\* api(originalRequest): the config goes out once more
Resend(req) == [req EXCEPT !.state = "sent", !.sends = @ + 1]

Queued(c) == {c.failedQueue[k] : k \in 1 .. Len(c.failedQueue)}

\* processQueue, with the callbacks of lines 46-52 that it releases
processQueue(c, error, token) ==
    [c EXCEPT
       !.requests = [r \in ClientRequests |->
                        IF r \notin Queued(c) THEN c.requests[r]
                        ELSE IF error THEN [c.requests[r] EXCEPT !.state = "rejected"]
                        ELSE Resend([c.requests[r] EXCEPT !.Authorization = token])],
       !.failedQueue = <<>>]

\* an interceptor that starts a refresh for every first 401
onRejectedNoQueue(c, r, status) ==
    IF status = 401 /\ ~c.requests[r].retry
    THEN IF c.localStorage.refreshToken = None
         THEN [processQueue([c EXCEPT !.requests[r].retry = TRUE,
                                      !.requests[r].state = "rejected",
                                      !.localStorage = clearTokens], TRUE, None)
                  EXCEPT !.isRefreshing = FALSE]
         ELSE [c EXCEPT !.requests[r].retry = TRUE,
                        !.requests[r].state = "refreshing",
                        !.isRefreshing = TRUE]
    ELSE [c EXCEPT !.requests[r].state = "rejected"]

\* the interceptor's error handler, up to the await of line 82
onRejected(c, r, status) ==
    IF status = 401 /\ ~c.requests[r].retry
    THEN IF c.isRefreshing
         THEN [c EXCEPT !.failedQueue = Append(@, r),
                        !.requests[r].state = "queued"]
         ELSE IF c.localStorage.refreshToken = None
         THEN [processQueue([c EXCEPT !.requests[r].retry = TRUE,
                                      !.requests[r].state = "rejected",
                                      !.localStorage = clearTokens], TRUE, None)
                  EXCEPT !.isRefreshing = FALSE]
         ELSE [c EXCEPT !.requests[r].retry = TRUE,
                        !.requests[r].state = "refreshing",
                        !.isRefreshing = TRUE]
    ELSE [c EXCEPT !.requests[r].state = "rejected"]

\* the same handler from the await of line 82 on: the refresh call of
\* request r is answered (ok) or fails
refreshSettled(c, r, ok) ==
    IF ok
    THEN LET tok == c.tokenSeq + 1
             c1 == [c EXCEPT !.tokenSeq = tok,
                             !.localStorage = setTokens(tok, tok),
                             !.requests[r].Authorization = Some(tok)]
             c2 == processQueue(c1, FALSE, Some(tok))
         IN  [c2 EXCEPT !.requests[r] = Resend(@), !.isRefreshing = FALSE]
    ELSE [processQueue([c EXCEPT !.localStorage = clearTokens,
                                 !.requests[r].state = "rejected"], TRUE, None)
             EXCEPT !.isRefreshing = FALSE]

ClientStep(c) ==
    /\ isRefreshing' = c.isRefreshing
    /\ failedQueue' = c.failedQueue
    /\ localStorage' = c.localStorage
    /\ requests' = c.requests
    /\ tokenSeq' = c.tokenSeq
    /\ UNCHANGED serverVars

\* AuthProvider.login: the token pair of a successful login is stored
login ==
    /\ tokenSeq < MaxClientTokens
    /\ ClientStep([Client EXCEPT !.tokenSeq = @ + 1,
                                 !.localStorage = setTokens(tokenSeq + 1, tokenSeq + 1)])

\* the application calls api.get / api.post
Send(r) ==
    /\ requests[r].state = "idle"
    /\ ClientStep([Client EXCEPT !.requests[r] = Resend(@)])

\* the server answers a request that is out
Respond(r, status) ==
    /\ requests[r].state = "sent"
    /\ ClientStep(IF status = 200
                  THEN [Client EXCEPT !.requests[r].state = "resolved"]
                  ELSE onRejected(Client, r, status))

\* POST /auth/refresh is answered
RefreshResponds(r, ok) ==
    /\ requests[r].state = "refreshing"
    /\ ok => tokenSeq < MaxClientTokens
    /\ ClientStep(refreshSettled(Client, r, ok))

ClientNext ==
    \/ login
    \/ \E r \in ClientRequests : Send(r)
    \/ \E r \in ClientRequests, status \in ResponseStatuses : Respond(r, status)
    \/ \E r \in ClientRequests, ok \in BOOLEAN : RefreshResponds(r, ok)

ClientSpec == Init /\ [][ClientNext]_vars

-----------------------------------------------------------------------------
(* Properties of the handlers, in every state the server can reach *)

UserIds == 1 .. Len(users)
IsDigit(d) == d \in 0 .. 9
RECURSIVE StringToNumber(_)
StringToNumber(str) ==
    IF str = <<>> THEN 0
    ELSE 10 * StringToNumber(SubSeq(str, 1, Len(str) - 1)) + str[Len(str)]

\* C1: POST /refresh answers 200 only to a token that is signed by the
\* server, unexpired and equal to the refreshToken stored for the account of
\* its subject; it then issues a pair for that account and stores the new
\* refresh token; every other request is answered 401, issues nothing and
\* leaves the table as it was.
C1_RefreshContract ==
    \A token \in TokenInputs, f \in DbFaults :
        LET r == RefreshResult(users, now, token, f) IN
        IF r.status = 200
        THEN /\ token # None
             /\ token[1].sig = "HS256"
             /\ now < token[1].exp
             /\ token[1].sub \in UserIds
             /\ users[token[1].sub].refreshToken = token
             /\ r.tokens # None
             /\ r.tokens[1].refreshToken.sub = token[1].sub
             /\ r.tokens[1].accessToken.sub = token[1].sub
             /\ r.users = [users EXCEPT ![token[1].sub].refreshToken =
                                            Some(r.tokens[1].refreshToken)]
        ELSE /\ r.status = 401
             /\ r.tokens = None
             /\ r.users = users

\* a refresh succeeded, and a token of the server that is not expired is
\* no longer the stored one
C1_Witness ==
    /\ spent # {}
    /\ \E t \in minted : /\ now < t.exp
                         /\ t.sub \in UserIds
                         /\ users[t.sub].refreshToken # Some(t)

\* C2: once a refresh with token T succeeded, every later refresh that
\* presents T is answered 401.
C2_NoReuseAfterRotation ==
    \A t \in spent : RefreshResult(users, now, Some(t), "none").status = 401

\* C3: the refresh token stored for an account is the one generated last
\* for it by login, refresh or Google auth, whatever the interleaving of
\* the requests (looked at when no request for the account is between
\* generating its tokens and saving them).
C3_StoredIsLastIssued ==
    \A i \in UserIds :
        ( /\ users[i].refreshToken # None
          /\ \A s \in Slots : ~(inflight[s].pc = "minted" /\ inflight[s].id = i) )
        => users[i].refreshToken = issued[i]

\* C4: of two refresh requests that present the same stored token and whose
\* reads and saves interleave, at most one is answered 200.
C4_OneConcurrentRefreshWins ==
    \A s1, s2 \in Slots :
        ( /\ s2 \in inflight[s1].peers
          /\ inflight[s1].op = "refresh" /\ inflight[s2].op = "refresh"
          /\ inflight[s1].pc = "done" /\ inflight[s2].pc = "done"
          /\ inflight[s1].token = inflight[s2].token )
        => ~(inflight[s1].status = 200 /\ inflight[s2].status = 200)

\* C5: a POST /verify-otp is answered 200 only if the account exists, an
\* OTP is stored, the submitted code equals it and the expiry has not
\* passed; it then leaves the account with no OTP, no OTP expiry and
\* isEmailVerified.
C5_VerifyOtpContract ==
    [][\A e \in EmailInputs, o \in OtpInputs, f \in DbFaults :
        LET r == VerifyOtpResult(users, now, e, o, f)
            id == findOneByEmail(users, e)
        IN
        (VerifyOtp(e, o, f) /\ r.status = 200) =>
            /\ ByEmail(users, e) # {}
            /\ users[id].emailVerificationOtp = Some(o)
            /\ users[id].emailVerificationExpires # None
            /\ users[id].emailVerificationExpires[1] >= now
            /\ users'[id].emailVerificationOtp = None
            /\ users'[id].emailVerificationExpires = None
            /\ users'[id].isEmailVerified]_vars

\* C6: verify-otp answers 400 "Invalid or expired OTP" to a code presented
\* after the stored expiry, and to a code that a successful verification of
\* the account has used already.
C6_OtpRejectedAfterExpiryOrUse ==
    [][\A e \in WellFormedEmails, o \in {c \in OtpInputs : Len(c) >= 6} :
        LET r == VerifyOtpResult(users, now, e, o, "none")
            id == findOneByEmail(users, e)
            rejected(x) == x.status = 400 /\ x.msg = "Invalid or expired OTP"
        IN
        /\ ( /\ ByEmail(users, e) # {}
             /\ users[id].emailVerificationExpires # None
             /\ users[id].emailVerificationExpires[1] < now ) => rejected(r)
        /\ (VerifyOtp(e, o, "none") /\ r.status = 200) =>
              \A d \in {0} \cup Jumps :
                  rejected(VerifyOtpResult(users', now' + d, e, o, "none"))]_vars

\* C7: a resend-otp that is answered 200 leaves the account in a state where
\* verify-otp refuses the code that was stored before and accepts the
\* freshly generated code only, with an expiry 10 minutes after the resend.
C7_ResendInvalidatesPrevious ==
    \A e \in WellFormedEmails, k \in RandomValues :
        LET r == ResendOtpResult(users, now, e, k, "none")
            id == findOneByEmail(users, e)
            old == users[id].emailVerificationOtp
            accepted(o) == VerifyOtpResult(r.users, now, e, o, "none").status = 200
        IN
        r.status = 200 =>
            /\ old # None => ~accepted(old[1])
            /\ \A o \in OtpInputs : accepted(o) <=> o = generateOtp(k)
            /\ r.users[id].emailVerificationExpires = Some(now + 600)

C9_LoginContract ==
    \A e \in EmailInputs, p \in LoginPasswords, f \in DbFaults :
        LET r == LoginResult(users, now, e, p, f)
            id == findOneByEmail(users, e)
        IN
        IF r.tokens # None \/ r.status < 400
        THEN /\ r.status = 200
             /\ ByEmail(users, e) # {}
             /\ users[id].password = <<"argon2id", p>>
             /\ users[id].isEmailVerified
             /\ r.tokens # None
             /\ r.tokens[1].refreshToken.sub = id
             /\ r.users = [users EXCEPT ![id].refreshToken = Some(r.tokens[1].refreshToken)]
        ELSE r.users = users

\* a password login succeeded, and another account is refused for not
\* being verified or for a wrong password
C9_Witness ==
    /\ \E i \in UserIds :
          /\ users[i].isEmailVerified
          /\ users[i].password = <<"argon2id", "hunter22">>
          /\ users[i].refreshToken # None
          /\ users[i].refreshToken = issued[i]
    /\ \E e \in WellFormedEmails, p \in LoginPasswords :
          LoginResult(users, now, e, p, "none").msg = "Invalid credentials"

\* C10: forgot-password answers an email of an account and an email of no
\* account with the same status and body, also when sendMail fails.
C10_ForgotPasswordNoEnumeration ==
    [][\A e1, e2 \in WellFormedEmails, f \in {"none", "mail"} :
        LET r1 == ForgotPasswordResult(users, now, e1, nonce + 1, f)
            r2 == ForgotPasswordResult(users, now, e2, nonce + 1, f)
        IN
        (ForgotPassword(e1, f) /\ ByEmail(users, e1) # {} /\ ByEmail(users, e2) = {})
            => <<r1.status, r1.msg>> = <<r2.status, r2.msg>>]_vars

\* C11: a POST /reset-password is answered 200 only if the token is the
\* stored reset token of an account and its expiry has not passed; it then
\* replaces the password hash and leaves the account with no reset token
\* and no expiry, so every later reset-password with that token is
\* answered 400.
C11_ResetPasswordSingleUse ==
    [][\A tk \in 1 .. nonce, p \in NewPasswords :
        LET r == ResetPasswordResult(users, now, tk, p, "none")
            id == CHOOSE i \in ByResetToken(users, tk) : TRUE
        IN
        (ResetPassword(tk, p, "none") /\ r.status = 200) =>
            /\ ByResetToken(users, tk) # {}
            /\ users[id].resetPasswordExpires # None
            /\ users[id].resetPasswordExpires[1] >= now
            /\ users'[id].password = <<"argon2id", p>>
            /\ users'[id].resetPasswordToken = None
            /\ users'[id].resetPasswordExpires = None
            /\ \A d \in {0} \cup Jumps, q \in NewPasswords :
                  ResetPasswordResult(users', now' + d, tk, q, "none").status = 400]_vars

\* C12: once POST /logout was handled with the refresh token stored for an
\* account, POST /refresh answers 401 to that token, at once and at any
\* later time.
C12_LogoutInvalidatesRefreshToken ==
    \A t \in minted :
        LET r == LogoutResult(users, now, Some(t), "none") IN
        (t.sub \in UserIds /\ users[t.sub].refreshToken = Some(t) /\ Verify(t, now)) =>
            \A d \in {0} \cup Jumps :
                RefreshResult(r.users, now + d, Some(t), "none").status = 401

\* the columns a request changed, from the row before to the row after
ChangedColumns(before, after) == {c \in Columns : before[c] # after[c]}

\* C13: register, verify-otp, login, refresh and logout, performed in this
\* order for one fresh account and each answered with success, each change
\* exactly one column of the account's row; the row before the register is
\* the row of column defaults.
C13_RoundTripOneFieldEach ==
    \A e \in WellFormedEmails, k \in RandomValues :
        LET id == Len(users) + 1
            blank == NewRow(e, None, None, None)
            r1 == RegisterResult(users, now, e, "hunter22", k, "none")
            r2 == VerifyOtpResult(r1.users, now, e, generateOtp(k), "none")
            r3 == LoginResult(r2.users, now, e, "hunter22", "none")
            r4 == RefreshResult(r3.users, now + OtpTtl,
                                Some(r3.tokens[1].refreshToken), "none")
            r5 == LogoutResult(r4.users, now + OtpTtl,
                               Some(r4.tokens[1].refreshToken), "none")
        IN
        ByEmail(users, e) = {} =>
            /\ <<r1.status, r2.status, r3.status, r4.status, r5.status>>
                  = <<201, 200, 200, 200, 200>>
            /\ Cardinality(ChangedColumns(blank, r1.users[id])) = 1
            /\ Cardinality(ChangedColumns(r1.users[id], r2.users[id])) = 1
            /\ Cardinality(ChangedColumns(r2.users[id], r3.users[id])) = 1
            /\ Cardinality(ChangedColumns(r3.users[id], r4.users[id])) = 1
            /\ Cardinality(ChangedColumns(r4.users[id], r5.users[id])) = 1
            /\ \A j \in UserIds : r5.users[j] = users[j]

\* C14: POST /google with a verified token carrying email E is answered
\* 200 with a token pair for the account with email E, which is the
\* existing one (no row is added, only its refreshToken changes) or else
\* exactly one new row with email E and the hash of a random password;
\* that account's refreshToken is the refresh token of the pair and no
\* other account changes.
C14_GoogleFindsOrProvisions ==
    \A g \in WellFormedEmails :
        LET r == GoogleResult(users, now, g, "none")
            known == {i \in UserIds : users[i].email = g}
            id == IF known = {} THEN Len(users) + 1 ELSE CHOOSE i \in known : TRUE
        IN
        /\ r.status = 200
        /\ r.tokens # None
        /\ r.tokens[1].accessToken.sub = id
        /\ r.tokens[1].refreshToken.sub = id
        /\ r.users[id].refreshToken = Some(r.tokens[1].refreshToken)
        /\ \A j \in UserIds \ {id} : r.users[j] = users[j]
        /\ IF known # {}
           THEN /\ Len(r.users) = Len(users)
                /\ ChangedColumns(users[id], r.users[id]) \subseteq {"refreshToken"}
           ELSE /\ Len(r.users) = Len(users) + 1
                /\ r.users[id].email = g
                /\ r.users[id].password = <<"argon2id", "random-hex-16">>
                /\ \A p \in LoginPasswords \cup RegisterPasswords \cup NewPasswords :
                      r.users[id].password # <<"argon2id", p>>

\* Google auth provisioned one account, and signed in to a registered
\* account that no password login can have given a refresh token
C14_Witness ==
    /\ \E i \in UserIds :
          /\ users[i].password = <<"argon2id", "random-hex-16">>
          /\ users[i].refreshToken # None
          /\ users[i].refreshToken = issued[i]
    /\ \E i \in UserIds :
          /\ users[i].password = <<"argon2id", "hunter22">>
          /\ ~users[i].isEmailVerified
          /\ users[i].refreshToken # None

\* C15: for an account that Google auth provisioned, no POST /login is
\* answered 200, whatever password is presented, also after
\* forgot-password, reset-password, resend-otp and verify-otp were handled
\* for it.
C15_FederatedNeverPasswordLogin ==
    \A i \in UserIds, k \in RandomValues :
        LET e == users[i].email
            r1 == ForgotPasswordResult(users, now, e, nonce + 1, "none")
            r2 == ResetPasswordResult(r1.users, now, nonce + 1, "newpass1", "none")
            r3 == ResendOtpResult(r2.users, now, e, k, "none")
            r4 == VerifyOtpResult(r3.users, now, e, generateOtp(k), "none")
        IN
        users[i].password = <<"argon2id", "random-hex-16">> =>
            \A db \in {users, r1.users, r2.users, r3.users, r4.users},
               p \in LoginPasswords \cup NewPasswords :
                LoginResult(db, now, e, p, "none").status # 200

\* C16: no two rows of the user table have the same email, whatever
\* register and Google-auth requests were handled and however their steps
\* interleaved; a register for an email that is registered already is
\* answered with an error and leaves the table as it was.
C16_EmailUnique ==
    /\ \A i, j \in UserIds : users[i].email = users[j].email => i = j
    /\ \A i \in UserIds, p \in RegisterPasswords, k \in RandomValues, f \in Faults :
          LET r == RegisterResult(users, now, users[i].email, p, k, f) IN
          r.users = users /\ r.status >= 400

\* a register and a Google auth for one email both found no account; one
\* of them has inserted the row and the other is about to
C16_Witness ==
    \E s, o \in Slots :
        /\ inflight[s].pc = "creating"
        /\ inflight[s].op = "register"
        /\ inflight[o].op = "google"
        /\ inflight[o].email = inflight[s].email
        /\ inflight[o].pc \in {"loaded", "minted", "done"}
        /\ ByEmail(users, inflight[s].email) # {}

\* C17: a login with a well-formed body for an unknown email or with a
\* wrong password is answered 400 "Invalid credentials"; a refresh with a
\* missing, forged, expired or mismatched token is answered 401; a
\* protected request with a missing header, a header that is not a Bearer
\* header, or a forged or expired token is answered 401.
C17_AuthFailureStatus ==
    /\ \A e \in WellFormedEmails, p \in LoginPasswords \ {""} :
          LET r == LoginResult(users, now, e, p, "none")
              known == {i \in UserIds : users[i].email = e}
          IN
          (known = {} \/ \E i \in known : users[i].password # <<"argon2id", p>>)
              => r.status = 400 /\ r.msg = "Invalid credentials"
    /\ \A t \in TokenInputs :
          ( \/ t = None
            \/ t[1].sig # "HS256"
            \/ now >= t[1].exp
            \/ t[1].sub \notin UserIds
            \/ users[t[1].sub].refreshToken # t )
              => RefreshResult(users, now, t, "none").status = 401
    /\ \A h \in HeaderInputs :
          ( \/ h = None
            \/ h[1].scheme # "Bearer"
            \/ h[1].token.sig # "HS256"
            \/ now >= h[1].token.exp )
              => /\ authenticate(users, now, h, "none").status = 401
                 /\ MeResult(users, todos, now, h, "none").status = 401

\* a verified account with a password exists, so a login with another
\* password is refused, and a token that was handed out has expired
C17_Witness ==
    /\ \E i \in UserIds :
          /\ users[i].isEmailVerified
          /\ LoginResult(users, now, users[i].email, "wrong-pw", "none").msg
                = "Invalid credentials"
          /\ LoginResult(users, now, users[i].email, "hunter22", "none").status = 200
    /\ \E t \in minted : now >= t.exp

\* C17 as stated: every authentication failure, the login with an unknown
\* email or a wrong password included, is answered 401.
C17_EveryAuthFailure401 ==
    /\ \A e \in WellFormedEmails, p \in LoginPasswords \ {""} :
          LET known == {i \in UserIds : users[i].email = e} IN
          (known = {} \/ \E i \in known : users[i].password # <<"argon2id", p>>)
              => LoginResult(users, now, e, p, "none").status = 401
    /\ \A t \in TokenInputs :
          (t = None \/ t[1].sig # "HS256" \/ now >= t[1].exp)
              => RefreshResult(users, now, t, "none").status = 401
    /\ \A h \in HeaderInputs :
          (h = None \/ h[1].token.sig # "HS256" \/ now >= h[1].token.exp)
              => authenticate(users, now, h, "none").status = 401

\* r answers a request with header h: the handler ran (r.user is the
\* account of req.user) only for a Bearer token that is signed, unexpired
\* and whose subject is an account; otherwise the answer is 401 and both
\* tables are as before
GuardedBy(h, r) ==
    IF r.user # 0 \/ r.status # 401
    THEN /\ h # None
         /\ h[1].scheme = "Bearer"
         /\ h[1].token.sig = "HS256"
         /\ now < h[1].token.exp
         /\ h[1].token.sub \in UserIds
         /\ r.user = h[1].token.sub
         /\ r.status # 401
    ELSE r.users = users /\ r.todos = todos

\* C18: the handler of GET /me and of each todo route runs only for a
\* request whose Authorization header is a Bearer header with a token that
\* is signed by the server, unexpired and whose subject is an account, and
\* it runs for that account; every other request is answered 401 and leaves
\* both tables as they were.
C18_ProtectedRoutesRequireBearer ==
    \A h \in HeaderInputs, f \in ProtectedFaults :
        /\ GuardedBy(h, MeResult(users, todos, now, h, f))
        /\ \A b \in CreateBodies :
              GuardedBy(h, CreateTodoResult(users, todos, now, h, b, f))
        /\ \A st \in StatusFilters :
              GuardedBy(h, ListTodosResult(users, todos, now, h, st, f))
        /\ \A id \in TodoIdInputs, b \in SentBodies :
              GuardedBy(h, UpdateTodoResult(users, todos, now, h, id, b, f))
        /\ \A id \in TodoIdInputs :
              GuardedBy(h, DeleteTodoResult(users, todos, now, h, id, f))

\* a handler ran and stored a todo for its account, and a token that was
\* handed out has expired since
C18_Witness ==
    /\ \E i \in 1 .. Len(todos) : todos[i].userId \in UserIds
    /\ \E t \in minted : now >= t.exp
    /\ \E h \in HeaderInputs : MeResult(users, todos, now, h, "none").status = 200

\* C19: whenever a database call or a mail delivery fails while a request
\* is handled, the request is answered 500 (a failing OTP mail of register,
\* which the handler catches on purpose, left aside).
C19_ErrorsAnswered500 ==
    /\ \A e \in WellFormedEmails, k \in RandomValues :
          RegisterResult(users, now, e, "hunter22", k, "db").status = 500
    /\ \A e \in WellFormedEmails, p \in LoginPasswords \ {""} :
          LoginResult(users, now, e, p, "db").status = 500
    /\ \A e \in WellFormedEmails, o \in {c \in OtpInputs : Len(c) >= 6} :
          VerifyOtpResult(users, now, e, o, "db").status = 500
    /\ \A e \in WellFormedEmails, k \in RandomValues :
          /\ ResendOtpResult(users, now, e, k, "db").status = 500
          /\ ResendOtpResult(users, now, e, k, "none").status = 200
                => ResendOtpResult(users, now, e, k, "mail").status = 500
    /\ \A g \in WellFormedEmails : GoogleResult(users, now, g, "db").status = 500
    /\ \A e \in WellFormedEmails :
          /\ ForgotPasswordResult(users, now, e, nonce + 1, "db").status = 500
          /\ ByEmail(users, e) # {}
                => ForgotPasswordResult(users, now, e, nonce + 1, "mail").status = 500
    /\ \A tk \in 1 .. nonce :
          ResetPasswordResult(users, now, tk, "newpass1", "db").status = 500
    /\ \A t \in minted :
          (Verify(t, now) /\ t.sub \in UserIds) =>
              /\ RefreshResult(users, now, Some(t), "db").status = 500
              /\ LogoutResult(users, now, Some(t), "db").status = 500
              /\ LET h == Some([scheme |-> "Bearer", token |-> t]) IN
                 /\ MeResult(users, todos, now, h, "db").status = 500
                 /\ \A st \in StatusFilters :
                       ListTodosResult(users, todos, now, h, st, "db").status = 500
                 /\ \A b \in CreateBodies :
                       CreateTodoResult(users, todos, now, h, b, "none").status = 201
                          => CreateTodoResult(users, todos, now, h, b, "todo").status = 500
                 /\ \A st \in StatusFilters :
                       ListTodosResult(users, todos, now, h, st, "todo").status = 500
                 /\ \A id \in TodoIdInputs \ {0}, b \in UpdateBodies :
                       UpdateTodoResult(users, todos, now, h, id, b, "todo").status = 500
                 /\ \A id \in TodoIdInputs \ {0} :
                       DeleteTodoResult(users, todos, now, h, id, "todo").status = 500

\* C20: for a request authenticated as account U, GET /todos returns only
\* rows whose userId is U; PUT and DELETE on a row of another account are
\* answered 404 and leave the table as it was; a POST /todos answered 201
\* appends one row whose userId is U.
C20_TodoIsolation ==
    \A h \in HeaderInputs :
        LET U == h[1].token.sub IN
        MeResult(users, todos, now, h, "none").status = 200 =>
            /\ \A st \in StatusFilters :
                  LET r == ListTodosResult(users, todos, now, h, st, "none") IN
                  r.status = 200 /\ \A i \in r.body : todos[i].userId = U
            /\ \A id \in 1 .. Len(todos) :
                  todos[id].userId # U =>
                      /\ \A b \in UpdateBodies :
                            LET r == UpdateTodoResult(users, todos, now, h, id, b, "none") IN
                            r.status = 404 /\ r.todos = todos
                      /\ LET r == DeleteTodoResult(users, todos, now, h, id, "none") IN
                         r.status = 404 /\ r.todos = todos
            /\ \A b \in CreateBodies :
                  LET r == CreateTodoResult(users, todos, now, h, b, "none") IN
                  r.status = 201 =>
                      /\ Len(r.todos) = Len(todos) + 1
                      /\ SubSeq(r.todos, 1, Len(todos)) = todos
                      /\ r.todos[Len(todos) + 1].userId = U

\* an account holds a valid token while a todo of another account is stored
C20_Witness ==
    \E i \in 1 .. Len(todos), t \in minted :
        /\ Verify(t, now)
        /\ t.sub \in UserIds
        /\ todos[i].userId \in UserIds \ {t.sub}
        /\ todos[i].deletedAt = None

\* C21: a DELETE answered 204 leaves the row in the table with deletedAt
\* set and nothing else changed; a row with deletedAt set stays in the
\* table as it is, is in no answer of GET /todos, and every PUT and DELETE
\* on it is answered 404.
C21_SoftDeleteIsFinal ==
    /\ [](\A i \in 1 .. Len(todos), h \in HeaderInputs :
            (todos[i].deletedAt # None
               /\ MeResult(users, todos, now, h, "none").status = 200) =>
                /\ \A st \in StatusFilters :
                      i \notin ListTodosResult(users, todos, now, h, st, "none").body
                /\ \A b \in UpdateBodies :
                      UpdateTodoResult(users, todos, now, h, i, b, "none").status = 404
                /\ DeleteTodoResult(users, todos, now, h, i, "none").status = 404)
    /\ [][/\ Len(todos') >= Len(todos)
          /\ \A i \in 1 .. Len(todos) :
                /\ todos[i].deletedAt # None => todos'[i] = todos[i]
                /\ \A h \in HeaderInputs :
                      ( /\ DeleteTodo(h, i, "none")
                        /\ DeleteTodoResult(users, todos, now, h, i, "none").status = 204 )
                          => todos' = [todos EXCEPT ![i].deletedAt = Some(now)]]_vars

\* a todo was soft-deleted and its owner still holds a valid token
C21_Witness ==
    \E i \in 1 .. Len(todos), t \in minted :
        /\ todos[i].deletedAt # None
        /\ todos[i].userId = t.sub
        /\ Verify(t, now)

\* C22: a PUT answered 200 writes every property that the body carries
\* (texts sanitized), an empty string and isDone = false included, and
\* leaves every property that the body does not carry, and every other
\* row, as it was.
C22_PartialUpdate ==
    \A h \in HeaderInputs, id \in 1 .. Len(todos), b \in UpdateBodies :
        LET r == UpdateTodoResult(users, todos, now, h, id, b, "none")
            old == todos[id]
            new == r.todos[id]
        IN
        r.status = 200 =>
            /\ new.name = IF b.name = None THEN old.name ELSE sanitizeHtml(b.name[1])
            /\ new.shortDescription =
                  IF b.shortDescription = None THEN old.shortDescription
                  ELSE sanitizeHtml(b.shortDescription[1])
            /\ new.dateTime = IF b.dateTime = None THEN old.dateTime ELSE b.dateTime[1]
            /\ new.isDone = IF b.isDone = None THEN old.isDone ELSE b.isDone[1]
            /\ new.userId = old.userId
            /\ new.deletedAt = old.deletedAt
            /\ \A j \in 1 .. Len(todos) : j # id => r.todos[j] = todos[j]

\* C24: when the OTP mail cannot be delivered, a register that would be
\* answered 201 is still answered 201 and has created the same account; a
\* resend-otp that would be answered 200 is answered 500 and has stored
\* the new code and its expiry all the same.
C24_MailFailureKeepsWrites ==
    /\ \A e \in EmailInputs, p \in RegisterPasswords, k \in RandomValues :
          LET ok == RegisterResult(users, now, e, p, k, "none")
              r == RegisterResult(users, now, e, p, k, "mail")
          IN
          ok.status = 201 =>
              /\ r.status = 201
              /\ Len(r.users) = Len(users) + 1
              /\ r.users = ok.users
    /\ \A e \in EmailInputs, k \in RandomValues :
          LET ok == ResendOtpResult(users, now, e, k, "none")
              r == ResendOtpResult(users, now, e, k, "mail")
              id == findOneByEmail(users, e)
          IN
          ok.status = 200 =>
              /\ r.status = 500
              /\ r.users = [users EXCEPT
                               ![id].emailVerificationOtp = Some(generateOtp(k)),
                               ![id].emailVerificationExpires = Some(now + 600)]

\* an unverified account holds a code that a resend at a later time would
\* replace, and another email is free to register
C24_Witness ==
    /\ \E i \in UserIds, k \in RandomValues :
          /\ ~users[i].isEmailVerified
          /\ users[i].emailVerificationOtp # None
          /\ users[i].emailVerificationOtp # Some(generateOtp(k))
          /\ users[i].emailVerificationExpires # Some(now + 600)
          /\ ResendOtpResult(users, now, users[i].email, k, "mail").status = 500
    /\ \E e \in WellFormedEmails, k \in RandomValues :
          RegisterResult(users, now, e, "hunter22", k, "mail").status = 201

C27_VerifiedHasNoOtp ==
    \A i \in UserIds :
        users[i].isEmailVerified =>
            /\ users[i].emailVerificationOtp = None
            /\ users[i].emailVerificationExpires = None

\* C28: every POST /logout is answered 200 "Logged out"; with a signed,
\* unexpired token of an account it leaves that account without a stored
\* refresh token, whether or not the token presented is the stored one,
\* and changes nothing else; with a missing or invalid token it changes
\* nothing.
C28_LogoutClearsStoredToken ==
    \A t \in TokenInputs :
        LET r == LogoutResult(users, now, t, "none") IN
        /\ r.status = 200
        /\ r.msg = "Logged out"
        /\ IF t # None /\ t[1].sig = "HS256" /\ now < t[1].exp /\ t[1].sub \in UserIds
           THEN r.users = [users EXCEPT ![t[1].sub].refreshToken = None]
           ELSE r.users = users

\* C29: POST /google with a verified token is answered 200 with a token
\* pair and stores the refresh token whether or not the account's
\* isEmailVerified is set, and leaves the flag as it was (false for an
\* account it creates); POST /login issues tokens to verified accounts
\* only.
C29_GoogleIgnoresVerifiedFlag ==
    /\ \A g \in WellFormedEmails :
          LET r == GoogleResult(users, now, g, "none")
              known == {i \in UserIds : users[i].email = g}
              id == IF known = {} THEN Len(users) + 1 ELSE CHOOSE i \in known : TRUE
          IN
          /\ r.status = 200
          /\ r.tokens # None
          /\ r.users[id].refreshToken = Some(r.tokens[1].refreshToken)
          /\ r.users[id].isEmailVerified = (known # {} /\ users[id].isEmailVerified)
    /\ \A e \in EmailInputs, p \in LoginPasswords, f \in DbFaults :
          LET r == LoginResult(users, now, e, p, f)
              known == {i \in UserIds : users[i].email = e}
          IN
          r.tokens # None =>
              \E i \in known : users[i].isEmailVerified /\ r.users[i].isEmailVerified

\* an account that is not verified holds a refresh token, and its password
\* login is refused for that reason
C29_Witness ==
    \E i \in UserIds :
        /\ ~users[i].isEmailVerified
        /\ users[i].refreshToken # None
        /\ LoginResult(users, now, users[i].email, "hunter22", "none").msg
              = "Email not verified"

Refreshing == {r \in ClientRequests : requests[r].state = "refreshing"}

C25_ResentAtMostOnce ==
    \A r \in ClientRequests :
        /\ requests[r].sends <= 2
        /\ requests[r].state \in {"refreshing", "queued"} => requests[r].sends = 1
        /\ requests[r].state = "sent" /\ requests[r].sends = 2 =>
              onRejected(Client, r, 401) = [Client EXCEPT !.requests[r].state = "rejected"]

====
